---- MODULE Spec2Model ----
(***************************************************************************)
(* The interval abstract domain of checker/src/interval_domain.rs.         *)
(*                                                                         *)
(* An IntervalDomain is a pair of i128 bounds.  The bound type is modelled *)
(* as a two's-complement integer of BitWidth bits (i128 itself has 128),   *)
(* so MIN and MAX are the sentinels i128::MIN and i128::MAX, saturation    *)
(* clamps to them and plain arithmetic overflows past them.  The widths of *)
(* the narrower numeric kinds are scaled down with the bound type and keep *)
(* the nesting of the source: 8 < 16 < 32 < 64 = pointer width < bound     *)
(* width, every unsigned maximum below MAX.                                *)
(***************************************************************************)
EXTENDS Integers

VARIABLES self, other, call, ret, panicked, acc, prev, steps

vars == <<self, other, call, ret, panicked, acc, prev, steps>>

\* Width in bits of the modelled bound type (i128 in the source).
BitWidth == 6

MIN == -(2 ^ (BitWidth - 1))
MAX == 2 ^ (BitWidth - 1) - 1

\* The bound values operands are built from: the sentinels, their
\* neighbours, and small values of both signs around zero.
Samples == {MIN, MIN + 1, -5, -3, -1, 0, 1, 2, 3, 5, MAX - 1, MAX}

Interval(lo, hi) == [lower_bound |-> lo, upper_bound |-> hi]

Intervals == {Interval(lo, hi) : lo \in Samples, hi \in Samples}

BOTTOM == Interval(1, 0)

TOP == Interval(MIN, MAX)

\* Option<T>
None == [some |-> FALSE]
Some(v) == [some |-> TRUE, value |-> v]

\* The numeric kinds of ExpressionType, and one kind standing for every
\* variant the matches send to their `_` arm.
ExpressionType ==
    {"I8", "I16", "I32", "I64", "I128", "Isize",
     "U8", "U16", "U32", "U64", "U128", "Usize", "NonNumeric"}

\* Scaled width in bits of the kinds narrower than the bound type.
KindBits(t) ==
    CASE t \in {"I8", "U8"} -> 1
      [] t \in {"I16", "U16"} -> 2
      [] t \in {"I32", "U32"} -> 3
      [] t \in {"I64", "U64", "Isize", "Usize"} -> 4

SignedMin(t) == -(2 ^ (KindBits(t) - 1))
SignedMax(t) == 2 ^ (KindBits(t) - 1) - 1
UnsignedMax(t) == 2 ^ KindBits(t) - 1

----------------------------------------------------------------------------
(* Integer primitives of the bound type *)

Clamp(v) == IF v > MAX THEN MAX ELSE IF v < MIN THEN MIN ELSE v

Min2(a, b) == IF a <= b THEN a ELSE b
Max2(a, b) == IF a >= b THEN a ELSE b

Abs(a) == IF a < 0 THEN -a ELSE a

\* Mathematical quotient and remainder rounding toward zero (Rust's / and %).
TruncDiv(a, b) ==
    LET q == Abs(a) \div Abs(b)
    IN IF (a < 0) # (b < 0) THEN -q ELSE q

TruncRem(a, b) == a - b * TruncDiv(a, b)

saturating_add(a, b) == Clamp(a + b)
saturating_sub(a, b) == Clamp(a - b)
saturating_mul(a, b) == Clamp(a * b)

checked_neg(a) == IF a = MIN THEN None ELSE Some(-a)

unwrap_or(o, d) == IF o.some THEN o.value ELSE d

\* a / b on the bound type: panics on a zero divisor and on MIN / -1.
int_div(a, b) ==
    IF b = 0 \/ (a = MIN /\ b = -1)
    THEN [panic |-> TRUE]
    ELSE [panic |-> FALSE, value |-> TruncDiv(a, b)]

\* a - b on the bound type: an overflow is a panic (overflow checks on).
int_sub(a, b) ==
    IF a - b > MAX \/ a - b < MIN
    THEN [panic |-> TRUE]
    ELSE [panic |-> FALSE, value |-> a - b]

Ok(v) == [panic |-> FALSE, value |-> v]
Panic == [panic |-> TRUE]

----------------------------------------------------------------------------
(* IntervalDomain *)

is_bottom(x) == x.upper_bound < x.lower_bound

is_top(x) == x.lower_bound = MIN /\ x.upper_bound = MAX

\* add with the TOP test ahead of the bottom test.
add_top_first(x, y) ==
    IF is_top(x) \/ is_top(y) THEN TOP
    ELSE IF is_bottom(x) \/ is_bottom(y) THEN BOTTOM
    ELSE Interval(saturating_add(x.lower_bound, y.lower_bound),
                  saturating_add(x.upper_bound, y.upper_bound))

add(x, y) ==
    IF is_bottom(x) \/ is_bottom(y) THEN BOTTOM
    ELSE IF is_top(x) \/ is_top(y) THEN TOP
    ELSE Interval(saturating_add(x.lower_bound, y.lower_bound),
                  saturating_add(x.upper_bound, y.upper_bound))

\* div accepting a divisor whose lower bound is zero.
div_nonneg_divisor(x, y) ==
    IF is_bottom(x) \/ is_bottom(y) THEN Ok(BOTTOM)
    ELSE IF is_top(x) \/ is_top(y) THEN Ok(TOP)
    ELSE IF y.lower_bound >= 0
    THEN LET lo == int_div(x.lower_bound, y.upper_bound)
             hi == int_div(x.upper_bound, y.lower_bound)
         IN IF lo.panic \/ hi.panic THEN Panic
            ELSE Ok(Interval(lo.value, hi.value))
    ELSE Ok(TOP)

div(x, y) ==
    IF is_bottom(x) \/ is_bottom(y) THEN Ok(BOTTOM)
    ELSE IF is_top(x) \/ is_top(y) THEN Ok(TOP)
    ELSE IF y.lower_bound > 0
    THEN LET lo == int_div(x.lower_bound, y.upper_bound)
             hi == int_div(x.upper_bound, y.lower_bound)
         IN IF lo.panic \/ hi.panic THEN Panic
            ELSE Ok(Interval(lo.value, hi.value))
    ELSE Ok(TOP)

\* greater_or_equal with its first comparison turned around.
greater_or_equal_flipped(x, y) ==
    IF is_bottom(x) \/ is_top(x) \/ is_bottom(y) \/ is_top(y) THEN None
    ELSE IF x.lower_bound <= y.upper_bound THEN Some(TRUE)
    ELSE IF y.lower_bound > x.upper_bound THEN Some(FALSE)
    ELSE None

greater_or_equal(x, y) ==
    IF is_bottom(x) \/ is_top(x) \/ is_bottom(y) \/ is_top(y) THEN None
    ELSE IF x.lower_bound >= y.upper_bound THEN Some(TRUE)
    ELSE IF y.lower_bound > x.upper_bound THEN Some(FALSE)
    ELSE None

greater_than(x, y) ==
    IF is_bottom(x) \/ is_top(x) \/ is_bottom(y) \/ is_top(y) THEN None
    ELSE IF x.lower_bound > y.upper_bound THEN Some(TRUE)
    ELSE IF y.lower_bound >= x.upper_bound THEN Some(FALSE)
    ELSE None

\* is_contained_in with the unsigned lower-bound comparison turned around.
is_contained_in_flipped(x, target_type) ==
    IF is_bottom(x) \/ is_top(x) THEN FALSE
    ELSE CASE target_type \in {"I8", "I16", "I32", "I64", "Isize"} ->
                 x.lower_bound >= SignedMin(target_type)
                 /\ x.upper_bound <= SignedMax(target_type)
           [] target_type = "I128" ->
                 x.lower_bound > MIN /\ x.upper_bound < MAX
           [] target_type \in {"U8", "U16", "U32", "U64", "Usize"} ->
                 x.lower_bound <= 0 /\ x.upper_bound <= UnsignedMax(target_type)
           [] target_type = "U128" ->
                 x.lower_bound <= 0 /\ x.upper_bound < MAX
           [] OTHER -> FALSE

is_contained_in(x, target_type) ==
    IF is_bottom(x) \/ is_top(x) THEN FALSE
    ELSE CASE target_type \in {"I8", "I16", "I32", "I64", "Isize"} ->
                 x.lower_bound >= SignedMin(target_type)
                 /\ x.upper_bound <= SignedMax(target_type)
           [] target_type = "I128" ->
                 x.lower_bound > MIN /\ x.upper_bound < MAX
           [] target_type \in {"U8", "U16", "U32", "U64", "Usize"} ->
                 x.lower_bound >= 0 /\ x.upper_bound <= UnsignedMax(target_type)
           [] target_type = "U128" ->
                 x.lower_bound >= 0 /\ x.upper_bound < MAX
           [] OTHER -> FALSE

is_contained_in_width_of(x, target_type) ==
    IF is_bottom(x) \/ is_top(x) THEN FALSE
    ELSE CASE target_type \in {"I128", "U128"} ->
                 x.lower_bound >= 0 /\ x.upper_bound < BitWidth
           [] target_type = "NonNumeric" -> FALSE
           [] OTHER ->
                 x.lower_bound >= 0 /\ x.upper_bound < KindBits(target_type)

intersect(x, y) ==
    IF is_bottom(x) \/ is_bottom(y) THEN BOTTOM
    ELSE IF is_top(x) THEN y
    ELSE IF is_top(y) THEN x
    ELSE Interval(Max2(x.lower_bound, y.lower_bound),
                  Min2(x.upper_bound, y.upper_bound))

less_equal(x, y) ==
    IF is_bottom(x) \/ is_top(x) \/ is_bottom(y) \/ is_top(y) THEN None
    ELSE IF x.upper_bound <= y.lower_bound THEN Some(TRUE)
    ELSE IF y.upper_bound < x.lower_bound THEN Some(FALSE)
    ELSE None

less_than(x, y) ==
    IF is_bottom(x) \/ is_top(x) \/ is_bottom(y) \/ is_top(y) THEN None
    ELSE IF x.upper_bound < y.lower_bound THEN Some(TRUE)
    ELSE IF y.upper_bound <= x.lower_bound THEN Some(FALSE)
    ELSE None

lower_bound(x) == IF x.lower_bound = TOP.lower_bound THEN None ELSE Some(x.lower_bound)

upper_bound(x) == IF x.upper_bound = TOP.upper_bound THEN None ELSE Some(x.upper_bound)

remove_lower_bound(x) == Interval(TOP.lower_bound, x.upper_bound)

remove_upper_bound(x) == Interval(x.lower_bound, TOP.upper_bound)

replace_upper_bound(x, new_value) == Interval(x.lower_bound, new_value)

\* mul from the two products of like endpoints only.
mul_like_endpoints(x, y) ==
    IF is_bottom(x) \/ is_bottom(y) THEN BOTTOM
    ELSE IF is_top(x) \/ is_top(y) THEN TOP
    ELSE LET xa == saturating_mul(x.lower_bound, y.lower_bound)
             yb == saturating_mul(x.upper_bound, y.upper_bound)
         IN Interval(Min2(xa, yb), Max2(xa, yb))

mul(x, y) ==
    IF is_bottom(x) \/ is_bottom(y) THEN BOTTOM
    ELSE IF is_top(x) \/ is_top(y) THEN TOP
    ELSE LET xa == saturating_mul(x.lower_bound, y.lower_bound)
             xb == saturating_mul(x.lower_bound, y.upper_bound)
             ya == saturating_mul(x.upper_bound, y.lower_bound)
             yb == saturating_mul(x.upper_bound, y.upper_bound)
         IN Interval(Min2(Min2(Min2(xa, xb), ya), yb),
                     Max2(Max2(Max2(xa, xb), ya), yb))

neg(x) ==
    IF is_bottom(x) THEN BOTTOM
    ELSE IF is_top(x) THEN TOP
    ELSE Interval(unwrap_or(checked_neg(x.upper_bound), MAX),
                  unwrap_or(checked_neg(x.lower_bound), MAX))

\* rem without the test of the dividend's lower bound.
rem_any_dividend(x, y) ==
    IF is_bottom(x) \/ is_bottom(y) THEN Ok(BOTTOM)
    ELSE IF is_top(x) \/ is_top(y) THEN Ok(TOP)
    ELSE IF y.lower_bound >= 1
    THEN LET b1 == int_sub(y.upper_bound, 1)
         IN IF b1.panic THEN Panic
            ELSE Ok(Interval(0, Min2(x.upper_bound, b1.value)))
    ELSE Ok(TOP)

rem(x, y) ==
    IF is_bottom(x) \/ is_bottom(y) THEN Ok(BOTTOM)
    ELSE IF is_top(x) \/ is_top(y) THEN Ok(TOP)
    ELSE IF x.lower_bound >= 0 /\ y.lower_bound >= 1
    THEN LET b1 == int_sub(y.upper_bound, 1)
         IN IF b1.panic THEN Panic
            ELSE Ok(Interval(0, Min2(x.upper_bound, b1.value)))
    ELSE Ok(TOP)

sub(x, y) ==
    IF is_bottom(x) \/ is_bottom(y) THEN BOTTOM
    ELSE IF is_top(x) \/ is_top(y) THEN TOP
    ELSE Interval(saturating_sub(x.lower_bound, y.upper_bound),
                  saturating_sub(x.upper_bound, y.lower_bound))

\* widen taking the larger of the two lower bounds.
widen_max_lower(x, y) ==
    IF is_bottom(x) \/ is_bottom(y) THEN BOTTOM
    ELSE IF is_top(x) \/ is_top(y) THEN TOP
    ELSE Interval(Max2(x.lower_bound, y.lower_bound),
                  Max2(x.upper_bound, y.upper_bound))

\* widen testing only self for bottom.
widen_self_bottom_only(x, y) ==
    IF is_bottom(x) THEN BOTTOM
    ELSE IF is_top(x) \/ is_top(y) THEN TOP
    ELSE Interval(Min2(x.lower_bound, y.lower_bound),
                  Max2(x.upper_bound, y.upper_bound))

widen(x, y) ==
    IF is_bottom(x) \/ is_bottom(y) THEN BOTTOM
    ELSE IF is_top(x) \/ is_top(y) THEN TOP
    ELSE Interval(Min2(x.lower_bound, y.lower_bound),
                  Max2(x.upper_bound, y.upper_bound))

----------------------------------------------------------------------------
(* One call of an operation on the operands self and other.  call records  *)
(* the operation and its extra argument, ret what it returned; a call that *)
(* panics returns nothing and sets panicked.                               *)

NoCall == [op |-> "none"]

Returns(c, v) ==
    /\ call' = c
    /\ ret' = v
    /\ panicked' = FALSE
    /\ UNCHANGED <<self, other, acc, prev, steps>>

Finishes(c, outcome) ==
    /\ call' = c
    /\ panicked' = outcome.panic
    /\ ret' = IF outcome.panic THEN ret ELSE outcome.value
    /\ UNCHANGED <<self, other, acc, prev, steps>>

Fresh == call = NoCall

Add == Fresh /\ Returns([op |-> "add"], add(self, other))
Sub == Fresh /\ Returns([op |-> "sub"], sub(self, other))
Mul == Fresh /\ Returns([op |-> "mul"], mul(self, other))
Div == Fresh /\ Finishes([op |-> "div"], div(self, other))
Rem == Fresh /\ Finishes([op |-> "rem"], rem(self, other))
Neg == Fresh /\ Returns([op |-> "neg"], neg(self))
Intersect == Fresh /\ Returns([op |-> "intersect"], intersect(self, other))
Widen == Fresh /\ Returns([op |-> "widen"], widen(self, other))
GreaterOrEqual ==
    Fresh /\ Returns([op |-> "greater_or_equal"], greater_or_equal(self, other))
GreaterThan == Fresh /\ Returns([op |-> "greater_than"], greater_than(self, other))
LessEqual == Fresh /\ Returns([op |-> "less_equal"], less_equal(self, other))
LessThan == Fresh /\ Returns([op |-> "less_than"], less_than(self, other))
IsBottom == Fresh /\ Returns([op |-> "is_bottom"], is_bottom(self))
IsTop == Fresh /\ Returns([op |-> "is_top"], is_top(self))
IsContainedIn ==
    /\ Fresh
    /\ \E t \in ExpressionType :
          Returns([op |-> "is_contained_in", target_type |-> t],
                  is_contained_in(self, t))
IsContainedInWidthOf ==
    /\ Fresh
    /\ \E t \in ExpressionType :
          Returns([op |-> "is_contained_in_width_of", target_type |-> t],
                  is_contained_in_width_of(self, t))
LowerBound == Fresh /\ Returns([op |-> "lower_bound"], lower_bound(self))
UpperBound == Fresh /\ Returns([op |-> "upper_bound"], upper_bound(self))
RemoveLowerBound ==
    Fresh /\ Returns([op |-> "remove_lower_bound"], remove_lower_bound(self))
RemoveUpperBound ==
    Fresh /\ Returns([op |-> "remove_upper_bound"], remove_upper_bound(self))
ReplaceUpperBound ==
    /\ Fresh
    /\ \E v \in Samples :
          Returns([op |-> "replace_upper_bound", new_value |-> v],
                  replace_upper_bound(self, v))

Init ==
    /\ self \in Intervals
    /\ other \in Intervals
    /\ call = NoCall
    /\ ret = BOTTOM
    /\ panicked = FALSE
    /\ acc = BOTTOM
    /\ prev = BOTTOM
    /\ steps = 0

Next ==
    \/ Add
    \/ Sub
    \/ Mul
    \/ Div
    \/ Rem
    \/ Neg
    \/ Intersect
    \/ Widen
    \/ GreaterOrEqual
    \/ GreaterThan
    \/ LessEqual
    \/ LessThan
    \/ IsBottom
    \/ IsTop
    \/ IsContainedIn
    \/ IsContainedInWidthOf
    \/ LowerBound
    \/ UpperBound
    \/ RemoveLowerBound
    \/ RemoveUpperBound
    \/ ReplaceUpperBound

Spec == Init /\ [][Next]_vars

----------------------------------------------------------------------------
(* Repeated widening, as the fixpoint driver applies it: acc becomes       *)
(* acc.widen(y) for a non-bottom y that the loop body either computes from *)
(* acc (acc.add(d)) or supplies outright (d).  prev is acc before the last *)
(* step; steps counts the steps that changed acc, the strictly growing     *)
(* ones when widening is monotone.                                         *)

\* The amounts a loop body moves its interval by, and the intervals it
\* supplies outright: one step up, one step down, a bounded range and a
\* half-unbounded one.
Deltas == {Interval(1, 1), Interval(-1, -1), Interval(-5, 0), Interval(5, MAX)}

\* The intervals a loop starts from.
Starts ==
    {x \in {Interval(lo, hi) : lo \in {MIN, -1, 0, 3}, hi \in {-1, 0, 3, MAX}} :
        ~is_bottom(x)}

\* No run of strictly growing steps is longer than the bound type has values.
StepCap == 2 ^ BitWidth

WidenWith(y) ==
    /\ prev' = acc
    /\ acc' = widen(acc, y)
    /\ steps' = IF acc' # acc THEN steps + 1 ELSE steps
    /\ UNCHANGED <<self, other, call, ret, panicked>>

\* The loop body computes its interval from acc.
WidenComputed ==
    /\ steps < StepCap
    /\ \E d \in Deltas : ~is_bottom(add(acc, d)) /\ WidenWith(add(acc, d))

\* The loop body supplies an interval of its own.
WidenSupplied ==
    /\ steps < StepCap
    /\ \E d \in Deltas : ~is_bottom(d) /\ WidenWith(d)

InitWiden ==
    /\ acc \in Starts
    /\ prev = acc
    /\ steps = 0
    /\ self = BOTTOM
    /\ other = BOTTOM
    /\ call = NoCall
    /\ ret = BOTTOM
    /\ panicked = FALSE

NextWiden ==
    \/ WidenComputed
    \/ WidenSupplied

SpecWiden == InitWiden /\ [][NextWiden]_vars

----------------------------------------------------------------------------
(* Properties *)

\* a's range includes b's: a.lower_bound <= b.lower_bound and
\* b.upper_bound <= a.upper_bound.
Encloses(a, b) ==
    a.lower_bound <= b.lower_bound /\ b.upper_bound <= a.upper_bound

InRange(v, x) == x.lower_bound <= v /\ v <= x.upper_bound

Members(x) == x.lower_bound .. x.upper_bound

BinaryArith == {"add", "sub", "mul", "div", "rem"}

Known(x) == ~is_bottom(x)

\* C1: add, sub, mul and neg are sound.  For non-bottom operands and every
\* p in self, q in other, the exact p+q, p-q, p*q (-p for neg), clamped to
\* [MIN, MAX], lies within the returned interval whenever that is not bottom.
C1_ArithmeticSound ==
    /\ (call.op \in {"add", "sub", "mul"} /\ Known(self) /\ Known(other)
        /\ Known(ret))
         => \A p \in Members(self), q \in Members(other) :
               InRange(Clamp(CASE call.op = "add" -> p + q
                               [] call.op = "sub" -> p - q
                               [] call.op = "mul" -> p * q), ret)
    /\ (call.op = "neg" /\ Known(self) /\ Known(ret))
         => \A p \in Members(self) : InRange(Clamp(-p), ret)

\* C1 witness: an addition that saturates: the singleton [MAX, MAX] plus
\* [1, 3] returns [MAX, MAX].
C1_Witness ==
    /\ call.op = "add"
    /\ self = Interval(MAX, MAX)
    /\ other = Interval(1, 3)
    /\ ret = Interval(MAX, MAX)

\* C2: div and rem are sound.  For non-bottom operands and every p in self,
\* q in other with q # 0 (and p / q representable), the truncating quotient
\* lies within self.div(other) and the truncating remainder within
\* self.rem(other), whenever that result is not bottom.
C2_DivRemSound ==
    (call.op \in {"div", "rem"} /\ ~panicked /\ Known(self) /\ Known(other)
     /\ Known(ret))
      => \A p \in Members(self), q \in Members(other) :
            (q # 0 /\ ~(p = MIN /\ q = -1))
              => InRange(IF call.op = "div" THEN TruncDiv(p, q)
                                            ELSE TruncRem(p, q), ret)

\* C3: every operation is total: no call panics (no division by zero, no
\* MIN / -1, no overflow of other.upper_bound - 1) and each returns a value
\* of its result type with bounds inside [MIN, MAX].
C3_Total ==
    /\ ~panicked
    /\ call.op \in BinaryArith \cup {"neg", "intersect", "widen",
                     "remove_lower_bound", "remove_upper_bound",
                     "replace_upper_bound"}
         => ret \in [lower_bound : MIN .. MAX, upper_bound : MIN .. MAX]
    /\ call.op \in {"greater_or_equal", "greater_than", "less_equal", "less_than"}
         => ret \in {None, Some(TRUE), Some(FALSE)}
    /\ call.op \in {"is_contained_in", "is_contained_in_width_of", "is_bottom",
                    "is_top"}
         => ret \in BOOLEAN
    /\ call.op \in {"lower_bound", "upper_bound"}
         => (ret = None \/ (ret.some /\ ret.value \in MIN .. MAX))

\* C3 witness: a division whose dividend reaches down to MIN, by the
\* divisor [1, 3], returns without a panic.
C3_Witness ==
    /\ call.op = "div"
    /\ self = Interval(MIN, -1)
    /\ other = Interval(1, 3)
    /\ ~panicked
    /\ ret = Interval(TruncDiv(MIN, 3), -1)

\* C4 as claimed: each widening step's result encloses the previous acc, and
\* after as many strictly growing steps as the bound type has bits acc is TOP.
C4_WidenWithinBitWidth ==
    /\ Encloses(acc, prev)
    /\ steps >= BitWidth => is_top(acc)

\* C4 amended: each widening step's result encloses the previous acc, and
\* after 2^BitWidth - 1 strictly growing steps (one less than the number of
\* values of the bound type) acc is TOP.
C4_WidenMonotoneFinite ==
    /\ Encloses(acc, prev)
    /\ steps >= 2 ^ BitWidth - 1 => is_top(acc)

\* C4 witness: a run that grew one value at a time and reached TOP with its
\* last possible step.
C4_Witness == steps = 2 ^ BitWidth - 1 /\ is_top(acc) /\ ~is_top(prev)

\* C5 as claimed: x.widen(BOTTOM) = x and x.intersect(TOP) = x for every x.
C5_Identities ==
    /\ (call.op = "widen" /\ other = BOTTOM) => ret = self
    /\ (call.op = "intersect" /\ other = TOP) => ret = self

\* C5 amended: x.widen(BOTTOM) is BOTTOM for every x (BOTTOM absorbs), and
\* x.intersect(TOP) = x for every x that is not bottom or is the canonical
\* BOTTOM; for every other bottom x it is the canonical BOTTOM.
C5_BottomAbsorbsTopIdentity ==
    /\ (call.op = "widen" /\ other = BOTTOM) => ret = BOTTOM
    /\ (call.op = "intersect" /\ other = TOP)
         => ret = IF is_bottom(self) THEN BOTTOM ELSE self

\* C5 witness: [0, 5].widen(BOTTOM) returned BOTTOM.
C5_Witness ==
    /\ call.op = "widen"
    /\ self = Interval(0, 5)
    /\ other = BOTTOM
    /\ ret = BOTTOM

\* C6: unknown propagates.  For add, sub, mul, div, rem (and neg on self), a
\* bottom operand, canonical or not, gives exactly BOTTOM = (1, 0), also
\* beside TOP; otherwise a TOP operand gives exactly TOP.
C6_UnknownPropagates ==
    /\ call.op \in BinaryArith =>
         /\ (is_bottom(self) \/ is_bottom(other)) => ret = BOTTOM
         /\ (Known(self) /\ Known(other) /\ (is_top(self) \/ is_top(other)))
              => ret = TOP
    /\ call.op = "neg" =>
         /\ is_bottom(self) => ret = BOTTOM
         /\ is_top(self) => ret = TOP

\* C6 witness: TOP plus a non-canonical bottom returned the canonical BOTTOM.
C6_Witness ==
    /\ call.op = "add"
    /\ self = TOP
    /\ other = Interval(5, 3)
    /\ ret = BOTTOM

\* C7 as claimed: [-5, 5].rem([1, 3]) = [0, 2]: for a dividend with a
\* negative lower bound and a divisor with lower bound at least 1, rem
\* returns [0, min(self.upper_bound, other.upper_bound - 1)].
C7_RemNegativeDividend ==
    /\ (call.op = "rem" /\ self = Interval(-5, 5) /\ other = Interval(1, 3))
         => ret = Interval(0, 2)
    /\ (call.op = "rem" /\ Known(self) /\ Known(other)
        /\ self.lower_bound < 0 /\ other.lower_bound >= 1)
         => ret = Interval(0, Min2(self.upper_bound, other.upper_bound - 1))

\* C7 amended: [-5, 5].rem([1, 3]) = TOP: for non-bottom operands and a
\* divisor with lower bound at least 1, rem returns TOP when the dividend's
\* lower bound is negative and [0, min(self.upper_bound,
\* other.upper_bound - 1)] when it is not.
C7_RemBySign ==
    (call.op = "rem" /\ Known(self) /\ Known(other) /\ other.lower_bound >= 1)
      => ret = IF self.lower_bound < 0
               THEN TOP
               ELSE Interval(0, Min2(self.upper_bound, other.upper_bound - 1))

\* C7 witness: [-5, 5].rem([1, 3]) returned TOP.
C7_Witness ==
    /\ call.op = "rem"
    /\ self = Interval(-5, 5)
    /\ other = Interval(1, 3)
    /\ ret = TOP

\* C8 as claimed: for every kind K and all intervals a, b: if
\* a.is_contained_in(K) and a's bounds enclose b's, then b.is_contained_in(K).
C8_ContainmentMonotone ==
    (call.op = "is_contained_in" /\ ret = TRUE /\ Encloses(self, other))
      => is_contained_in(other, call.target_type)

\* C8 amended: the same for every b that is not bottom (a bottom b is
\* contained in no kind).
C8_ContainmentMonotoneKnown ==
    (call.op = "is_contained_in" /\ ret = TRUE /\ Encloses(self, other)
     /\ Known(other))
      => is_contained_in(other, call.target_type)

\* C8 witness: [0, 5] is contained in U32 and encloses [1, 3].
C8_Witness ==
    /\ call.op = "is_contained_in"
    /\ call.target_type = "U32"
    /\ self = Interval(0, 5)
    /\ other = Interval(1, 3)
    /\ ret = TRUE

\* C9: whenever a.less_than(b) is Some(true), a.less_equal(b) is Some(true)
\* and a.greater_or_equal(b) is Some(false).
C9_ComparisonsAgree ==
    (call.op = "less_than" /\ ret = Some(TRUE))
      => /\ less_equal(self, other) = Some(TRUE)
         /\ greater_or_equal(self, other) = Some(FALSE)

\* C9 witness: [-5, 0].less_than([1, 3]) returned Some(true).
C9_Witness ==
    /\ call.op = "less_than"
    /\ self = Interval(-5, 0)
    /\ other = Interval(1, 3)
    /\ ret = Some(TRUE)

\* C10: add, sub, mul, div, rem and neg return a non-bottom interval
\* (lower_bound <= upper_bound) whenever their operands are non-bottom.
C10_NoBottomFromKnown ==
    /\ (call.op \in BinaryArith /\ ~panicked /\ Known(self) /\ Known(other))
         => Known(ret)
    /\ (call.op = "neg" /\ Known(self)) => Known(ret)

====
